---- MODULE Spec2Model ----
(***************************************************************************)
(* Model of the cephalopod ledger engine (src/src/model.rs): Account, the  *)
(* State with its three maps, and State::apply_transaction with its five   *)
(* handlers.  Decimal amounts are modelled as integers (a fixed number of  *)
(* fractional digits, no rounding); Option<Decimal> is a record with a     *)
(* presence flag.                                                          *)
(***************************************************************************)
EXTENDS Integers, FiniteSets, Sequences, TLC

\* ------------------------------------------------------------------ bounds
NumClients == 2
NumTx == 2
MaxAmount == 1
MaxRecords == 5
TailRecords == 2
MaxRows == 3
MaxBalance == 2
AnyRecords == 1

Clients == 1..NumClients
TxIds == 1..NumTx

\* ------------------------------------------------------------------ values
None == [some |-> FALSE, v |-> 0]
Some(x) == [some |-> TRUE, v |-> x]

\* Amounts a record can carry: missing, negative, zero, positive.
Amounts == {None} \cup {Some(x) : x \in (-1)..MaxAmount}

TransactionType == {"Deposit", "Withdrawal", "Dispute", "Resolve", "Chargeback"}

Transaction == [tpe : TransactionType, client : Clients, tx : TxIds, amount : Amounts]

\* The records fed to the engine.  Dispute, Resolve and Chargeback records carry no
\* amount (their handlers never read tx.amount).
Records ==
    [tpe : {"Deposit", "Withdrawal"}, client : Clients, tx : TxIds, amount : Amounts]
    \cup [tpe : {"Dispute", "Resolve", "Chargeback"}, client : Clients, tx : TxIds,
          amount : {None}]

TransactionState == {"Withdrawn", "Deposited", "Disputed", "Resolved", "Chargebacked"}

IntegrityErrors == {"StateMissingForTransaction", "AmountMissingForTransaction",
                    "AccountMissingForTransaction", "FundsNotLocked",
                    "UnexpectedAccountError"}

TransactionErrors == {"AccountLocked", "AmountNotProvided", "NegativeAmountProvided",
                      "UnknownAccount", "NotEnoughFunds", "TransactionNotFound",
                      "TransactionInvalidState", "TransactionClientMismatch"}

\* AccountError / Result<(), AccountError>: tag plus the NotEnoughFunds payload.
AccOk == [tag |-> "Ok", available |-> 0, required |-> 0]
AccountLocked == [tag |-> "AccountLocked", available |-> 0, required |-> 0]
NegativeAmount == [tag |-> "NegativeAmount", available |-> 0, required |-> 0]
NotEnoughFunds(available, required) ==
    [tag |-> "NotEnoughFunds", available |-> available, required |-> required]

\* Result<(), CephalopodError>: the tier, the variant and the funds payload.
Ok == [tier |-> "Ok", error |-> "Ok", available |-> 0, required |-> 0]
TxErr(e) == [tier |-> "TransactionError", error |-> e, available |-> 0, required |-> 0]
TxErrFunds(e, a, r) ==
    [tier |-> "TransactionError", error |-> e, available |-> a, required |-> r]
IntErr(e) == [tier |-> "IntegrityError", error |-> e, available |-> 0, required |-> 0]
IntErrFunds(e, a, r) ==
    [tier |-> "IntegrityError", error |-> e, available |-> a, required |-> r]

\* ------------------------------------------------------------------ Account
Account_new == [available |-> 0, held |-> 0, locked |-> FALSE]

\* A check_lock that lets a locked account through.
check_lock_open(acc) == AccOk

check_lock(acc) == IF acc.locked THEN AccountLocked ELSE AccOk

\* A deposit without the sign test.
Account_deposit_unsigned(acc, amount) ==
    IF check_lock(acc).tag # "Ok" THEN [err |-> check_lock(acc), acc |-> acc]
    ELSE [err |-> AccOk, acc |-> [acc EXCEPT !.available = @ + amount]]

\* A deposit that takes zero for a negative amount.
Account_deposit_rejects_zero(acc, amount) ==
    IF check_lock(acc).tag # "Ok" THEN [err |-> check_lock(acc), acc |-> acc]
    ELSE IF amount <= 0 THEN [err |-> NegativeAmount, acc |-> acc]
    ELSE [err |-> AccOk, acc |-> [acc EXCEPT !.available = @ + amount]]

Account_deposit(acc, amount) ==
    IF check_lock(acc).tag # "Ok" THEN [err |-> check_lock(acc), acc |-> acc]
    ELSE IF amount < 0 THEN [err |-> NegativeAmount, acc |-> acc]
    ELSE [err |-> AccOk, acc |-> [acc EXCEPT !.available = @ + amount]]

\* A withdraw that reports success without taking the amount.
Account_withdraw_keeps(acc, amount) ==
    IF check_lock(acc).tag # "Ok" THEN [err |-> check_lock(acc), acc |-> acc]
    ELSE IF amount < 0 THEN [err |-> NegativeAmount, acc |-> acc]
    ELSE IF amount > acc.available
         THEN [err |-> NotEnoughFunds(acc.available, amount), acc |-> acc]
    ELSE [err |-> AccOk, acc |-> acc]

\* A withdraw that looks at the sign of the amount before the lock.
Account_withdraw_negative_first(acc, amount) ==
    IF amount < 0 THEN [err |-> NegativeAmount, acc |-> acc]
    ELSE IF check_lock(acc).tag # "Ok" THEN [err |-> check_lock(acc), acc |-> acc]
    ELSE IF amount > acc.available
         THEN [err |-> NotEnoughFunds(acc.available, amount), acc |-> acc]
    ELSE [err |-> AccOk, acc |-> [acc EXCEPT !.available = @ - amount]]

\* A withdraw that refuses to empty the account.
Account_withdraw_strict(acc, amount) ==
    IF check_lock(acc).tag # "Ok" THEN [err |-> check_lock(acc), acc |-> acc]
    ELSE IF amount < 0 THEN [err |-> NegativeAmount, acc |-> acc]
    ELSE IF amount >= acc.available
         THEN [err |-> NotEnoughFunds(acc.available, amount), acc |-> acc]
    ELSE [err |-> AccOk, acc |-> [acc EXCEPT !.available = @ - amount]]

Account_withdraw(acc, amount) ==
    IF check_lock(acc).tag # "Ok" THEN [err |-> check_lock(acc), acc |-> acc]
    ELSE IF amount < 0 THEN [err |-> NegativeAmount, acc |-> acc]
    ELSE IF amount > acc.available
         THEN [err |-> NotEnoughFunds(acc.available, amount), acc |-> acc]
    ELSE [err |-> AccOk, acc |-> [acc EXCEPT !.available = @ - amount]]

\* A lock that holds the amount without taking it from available.
Account_lock_copies(acc, amount) ==
    IF check_lock(acc).tag # "Ok" THEN [err |-> check_lock(acc), acc |-> acc]
    ELSE IF amount > acc.available
         THEN [err |-> NotEnoughFunds(acc.available, amount), acc |-> acc]
    ELSE [err |-> AccOk, acc |-> [acc EXCEPT !.held = @ + amount]]

\* A lock without the available-funds check.
Account_lock_unchecked(acc, amount) ==
    IF check_lock(acc).tag # "Ok" THEN [err |-> check_lock(acc), acc |-> acc]
    ELSE [err |-> AccOk,
          acc |-> [acc EXCEPT !.available = @ - amount, !.held = @ + amount]]

\* A lock that takes the funds from available without holding them.
Account_lock_forgets_held(acc, amount) ==
    IF check_lock(acc).tag # "Ok" THEN [err |-> check_lock(acc), acc |-> acc]
    ELSE IF amount > acc.available
         THEN [err |-> NotEnoughFunds(acc.available, amount), acc |-> acc]
    ELSE [err |-> AccOk, acc |-> [acc EXCEPT !.available = @ - amount]]

Account_lock(acc, amount) ==
    IF check_lock(acc).tag # "Ok" THEN [err |-> check_lock(acc), acc |-> acc]
    ELSE IF amount > acc.available
         THEN [err |-> NotEnoughFunds(acc.available, amount), acc |-> acc]
    ELSE [err |-> AccOk,
          acc |-> [acc EXCEPT !.available = @ - amount, !.held = @ + amount]]

\* A release that measures the amount against available, the wrong way round
\* (the comparison of Account::release in main.rs).
Account_release_inverted(acc, amount) ==
    IF check_lock(acc).tag # "Ok" THEN [err |-> check_lock(acc), acc |-> acc]
    ELSE IF amount < acc.available
         THEN [err |-> NotEnoughFunds(acc.available, amount), acc |-> acc]
    ELSE [err |-> AccOk,
          acc |-> [acc EXCEPT !.held = @ - amount, !.available = @ + amount]]

\* A release without the lock check.
Account_release_unlocked(acc, amount) ==
    IF amount > acc.held
    THEN [err |-> NotEnoughFunds(acc.available, amount), acc |-> acc]
    ELSE [err |-> AccOk,
          acc |-> [acc EXCEPT !.held = @ - amount, !.available = @ + amount]]

\* A release that drops the held funds without giving them back.
Account_release_drops(acc, amount) ==
    IF check_lock(acc).tag # "Ok" THEN [err |-> check_lock(acc), acc |-> acc]
    ELSE IF amount > acc.held
         THEN [err |-> NotEnoughFunds(acc.available, amount), acc |-> acc]
    ELSE [err |-> AccOk, acc |-> [acc EXCEPT !.held = @ - amount]]

Account_release(acc, amount) ==
    IF check_lock(acc).tag # "Ok" THEN [err |-> check_lock(acc), acc |-> acc]
    ELSE IF amount > acc.held
         THEN [err |-> NotEnoughFunds(acc.available, amount), acc |-> acc]
    ELSE [err |-> AccOk,
          acc |-> [acc EXCEPT !.held = @ - amount, !.available = @ + amount]]

\* A chargeback without the lock check.
Account_chargeback_relocks(acc, amount) ==
    IF amount > acc.held
    THEN [err |-> NotEnoughFunds(acc.available, amount), acc |-> acc]
    ELSE [err |-> AccOk,
          acc |-> [acc EXCEPT !.held = @ - amount, !.locked = TRUE]]

\* A chargeback that locks the account but leaves the funds held.
Account_chargeback_keeps_held(acc, amount) ==
    IF check_lock(acc).tag # "Ok" THEN [err |-> check_lock(acc), acc |-> acc]
    ELSE IF amount > acc.held
         THEN [err |-> NotEnoughFunds(acc.available, amount), acc |-> acc]
    ELSE [err |-> AccOk, acc |-> [acc EXCEPT !.locked = TRUE]]

\* A chargeback that removes the held funds but leaves the account open.
Account_chargeback_open(acc, amount) ==
    IF check_lock(acc).tag # "Ok" THEN [err |-> check_lock(acc), acc |-> acc]
    ELSE IF amount > acc.held
         THEN [err |-> NotEnoughFunds(acc.available, amount), acc |-> acc]
    ELSE [err |-> AccOk, acc |-> [acc EXCEPT !.held = @ - amount]]

Account_chargeback(acc, amount) ==
    IF check_lock(acc).tag # "Ok" THEN [err |-> check_lock(acc), acc |-> acc]
    ELSE IF amount > acc.held
         THEN [err |-> NotEnoughFunds(acc.available, amount), acc |-> acc]
    ELSE [err |-> AccOk,
          acc |-> [acc EXCEPT !.held = @ - amount, !.locked = TRUE]]

\* ------------------------------------------------------------------ State
\* A ledger value: the three maps of struct State, as functions on the keys
\* that are present.
Empty == [x \in {} |-> 0]

State_new == [accounts |-> Empty,
              transaction_history |-> Empty,
              transaction_state |-> Empty]

\* HashMap::insert: add the key or overwrite its value.
Insert(m, k, v) == [x \in DOMAIN m \cup {k} |-> IF x = k THEN v ELSE m[x]]

\* What a handler returns: the Result and the ledger it leaves behind.
Ret(res, s) == [res |-> res, s |-> s]

\* A deposit that reads a missing amount as zero.
apply_deposit_defaults_amount(s, tx) ==
    LET accs == IF tx.client \in DOMAIN s.accounts
                THEN s.accounts
                ELSE Insert(s.accounts, tx.client, Account_new)
        s1 == [s EXCEPT !.accounts = accs]
    IN  LET r == Account_deposit(accs[tx.client], tx.amount.v)
        IN  CASE r.err.tag = "Ok" ->
                        Ret(Ok, [accounts |-> Insert(accs, tx.client, r.acc),
                                 transaction_history |->
                                     Insert(s.transaction_history, tx.tx, tx),
                                 transaction_state |->
                                     Insert(s.transaction_state, tx.tx, "Deposited")])
                   [] r.err.tag = "AccountLocked" -> Ret(TxErr("AccountLocked"), s1)
                   [] r.err.tag = "NegativeAmount" ->
                        Ret(TxErr("NegativeAmountProvided"), s1)
                   [] OTHER -> Ret(IntErr("UnexpectedAccountError"), s1)

apply_deposit(s, tx) ==
    LET accs == IF tx.client \in DOMAIN s.accounts
                THEN s.accounts
                ELSE Insert(s.accounts, tx.client, Account_new)
        s1 == [s EXCEPT !.accounts = accs]
    IN  IF ~tx.amount.some THEN Ret(TxErr("AmountNotProvided"), s1)
        ELSE LET r == Account_deposit(accs[tx.client], tx.amount.v)
             IN  CASE r.err.tag = "Ok" ->
                        Ret(Ok, [accounts |-> Insert(accs, tx.client, r.acc),
                                 transaction_history |->
                                     Insert(s.transaction_history, tx.tx, tx),
                                 transaction_state |->
                                     Insert(s.transaction_state, tx.tx, "Deposited")])
                   [] r.err.tag = "AccountLocked" -> Ret(TxErr("AccountLocked"), s1)
                   [] r.err.tag = "NegativeAmount" ->
                        Ret(TxErr("NegativeAmountProvided"), s1)
                   [] OTHER -> Ret(IntErr("UnexpectedAccountError"), s1)

\* A withdrawal that opens an account for a client that has none, as
\* apply_deposit does.
apply_withdrawal_opens_account(s, tx) ==
    LET accs == IF tx.client \in DOMAIN s.accounts
                THEN s.accounts
                ELSE Insert(s.accounts, tx.client, Account_new)
        s1 == [s EXCEPT !.accounts = accs]
    IN  IF ~tx.amount.some THEN Ret(TxErr("AmountNotProvided"), s1)
        ELSE LET r == Account_withdraw(accs[tx.client], tx.amount.v)
             IN  CASE r.err.tag = "Ok" ->
                        Ret(Ok, [accounts |-> Insert(accs, tx.client, r.acc),
                                 transaction_history |->
                                     Insert(s.transaction_history, tx.tx, tx),
                                 transaction_state |->
                                     Insert(s.transaction_state, tx.tx, "Withdrawn")])
                   [] r.err.tag = "AccountLocked" -> Ret(TxErr("AccountLocked"), s1)
                   [] r.err.tag = "NegativeAmount" ->
                        Ret(TxErr("NegativeAmountProvided"), s1)
                   [] r.err.tag = "NotEnoughFunds" ->
                        Ret(TxErrFunds("NotEnoughFunds", r.err.available,
                                       r.err.required), s1)

\* A withdrawal that enters the record in the history although the account
\* refused it.
apply_withdrawal_records_refused(s, tx) ==
    IF tx.client \notin DOMAIN s.accounts THEN Ret(TxErr("UnknownAccount"), s)
    ELSE IF ~tx.amount.some THEN Ret(TxErr("AmountNotProvided"), s)
    ELSE LET r == Account_withdraw(s.accounts[tx.client], tx.amount.v)
             s1 == [s EXCEPT !.transaction_history = Insert(@, tx.tx, tx),
                             !.transaction_state = Insert(@, tx.tx, "Withdrawn")]
         IN  CASE r.err.tag = "Ok" ->
                    Ret(Ok, [s1 EXCEPT !.accounts = Insert(@, tx.client, r.acc)])
               [] r.err.tag = "AccountLocked" -> Ret(TxErr("AccountLocked"), s1)
               [] r.err.tag = "NegativeAmount" ->
                    Ret(TxErr("NegativeAmountProvided"), s1)
               [] r.err.tag = "NotEnoughFunds" ->
                    Ret(TxErrFunds("NotEnoughFunds", r.err.available, r.err.required), s1)

apply_withdrawal(s, tx) ==
    IF tx.client \notin DOMAIN s.accounts THEN Ret(TxErr("UnknownAccount"), s)
    ELSE IF ~tx.amount.some THEN Ret(TxErr("AmountNotProvided"), s)
    ELSE LET r == Account_withdraw(s.accounts[tx.client], tx.amount.v)
         IN  CASE r.err.tag = "Ok" ->
                    Ret(Ok, [accounts |-> Insert(s.accounts, tx.client, r.acc),
                             transaction_history |->
                                 Insert(s.transaction_history, tx.tx, tx),
                             transaction_state |->
                                 Insert(s.transaction_state, tx.tx, "Withdrawn")])
               [] r.err.tag = "AccountLocked" -> Ret(TxErr("AccountLocked"), s)
               [] r.err.tag = "NegativeAmount" ->
                    Ret(TxErr("NegativeAmountProvided"), s)
               [] r.err.tag = "NotEnoughFunds" ->
                    Ret(TxErrFunds("NotEnoughFunds", r.err.available, r.err.required), s)

\* The common skeleton of apply_dispute / apply_resolve / apply_chargeback:
\* history lookup, get_mut_state, assert_state, assert_client_match,
\* get_mut_account, get_amount, then the account operation and its error map.
get_mut_state_ok(s, tx) == tx.tx \in DOMAIN s.transaction_state

get_mut_account_ok(s, tx) == tx.client \in DOMAIN s.accounts

\* An assert_client_match that accepts a record of any client.
assert_client_match_any(tx, referenced_tx) == TRUE

assert_client_match(tx, referenced_tx) == tx.client = referenced_tx.client

\* An assert_state that accepts every lifecycle state.
assert_state_any(state, expected) == TRUE

\* An assert_state that also lets a Resolved transaction through.
assert_state_redispute(state, expected) == state = expected \/ state = "Resolved"

\* An assert_state that also lets a transaction whose dispute is over through.
assert_state_closed(state, expected) ==
    state = expected \/ state \in {"Resolved", "Chargebacked"}

\* An assert_state that also lets a withdrawal through.
assert_state_withdrawn(state, expected) == state = expected \/ state = "Withdrawn"

assert_state(state, expected) == state = expected

get_amount_ok(referenced_tx) == referenced_tx.amount.some

\* A dispute that reports a shortage of available funds the way apply_resolve
\* reports a shortage of held funds.
apply_dispute_escalates(s, tx) ==
    IF tx.tx \notin DOMAIN s.transaction_history
    THEN Ret(TxErr("TransactionNotFound"), s)
    ELSE LET disputed_tx == s.transaction_history[tx.tx] IN
    IF ~get_mut_state_ok(s, tx) THEN Ret(IntErr("StateMissingForTransaction"), s)
    ELSE IF ~assert_state(s.transaction_state[tx.tx], "Deposited")
         THEN Ret(TxErr("TransactionInvalidState"), s)
    ELSE IF ~assert_client_match(tx, disputed_tx)
         THEN Ret(TxErr("TransactionClientMismatch"), s)
    ELSE IF ~get_mut_account_ok(s, tx)
         THEN Ret(IntErr("AccountMissingForTransaction"), s)
    ELSE IF ~get_amount_ok(disputed_tx)
         THEN Ret(IntErr("AmountMissingForTransaction"), s)
    ELSE LET r == Account_lock(s.accounts[tx.client], disputed_tx.amount.v)
         IN  CASE r.err.tag = "Ok" ->
                    Ret(Ok, [s EXCEPT !.accounts[tx.client] = r.acc,
                                      !.transaction_state[tx.tx] = "Disputed"])
               [] r.err.tag = "AccountLocked" -> Ret(TxErr("AccountLocked"), s)
               [] r.err.tag = "NotEnoughFunds" ->
                    Ret(IntErrFunds("FundsNotLocked", r.err.available, r.err.required), s)
               [] OTHER -> Ret(IntErr("UnexpectedAccountError"), s)

\* A dispute that marks every Deposited transaction as Disputed.
apply_dispute_marks_all(s, tx) ==
    IF tx.tx \notin DOMAIN s.transaction_history
    THEN Ret(TxErr("TransactionNotFound"), s)
    ELSE LET disputed_tx == s.transaction_history[tx.tx] IN
    IF ~get_mut_state_ok(s, tx) THEN Ret(IntErr("StateMissingForTransaction"), s)
    ELSE IF ~assert_state(s.transaction_state[tx.tx], "Deposited")
         THEN Ret(TxErr("TransactionInvalidState"), s)
    ELSE IF ~assert_client_match(tx, disputed_tx)
         THEN Ret(TxErr("TransactionClientMismatch"), s)
    ELSE IF ~get_mut_account_ok(s, tx)
         THEN Ret(IntErr("AccountMissingForTransaction"), s)
    ELSE IF ~get_amount_ok(disputed_tx)
         THEN Ret(IntErr("AmountMissingForTransaction"), s)
    ELSE LET r == Account_lock(s.accounts[tx.client], disputed_tx.amount.v)
         IN  CASE r.err.tag = "Ok" ->
                    Ret(Ok, [s EXCEPT !.accounts[tx.client] = r.acc,
                                      !.transaction_state =
                                          [t \in DOMAIN @ |->
                                              IF @[t] = "Deposited" THEN "Disputed"
                                              ELSE @[t]]])
               [] r.err.tag = "AccountLocked" -> Ret(TxErr("AccountLocked"), s)
               [] r.err.tag = "NotEnoughFunds" ->
                    Ret(TxErrFunds("NotEnoughFunds", r.err.available, r.err.required), s)
               [] OTHER -> Ret(IntErr("UnexpectedAccountError"), s)

apply_dispute(s, tx) ==
    IF tx.tx \notin DOMAIN s.transaction_history
    THEN Ret(TxErr("TransactionNotFound"), s)
    ELSE LET disputed_tx == s.transaction_history[tx.tx] IN
    IF ~get_mut_state_ok(s, tx) THEN Ret(IntErr("StateMissingForTransaction"), s)
    ELSE IF ~assert_state(s.transaction_state[tx.tx], "Deposited")
         THEN Ret(TxErr("TransactionInvalidState"), s)
    ELSE IF ~assert_client_match(tx, disputed_tx)
         THEN Ret(TxErr("TransactionClientMismatch"), s)
    ELSE IF ~get_mut_account_ok(s, tx)
         THEN Ret(IntErr("AccountMissingForTransaction"), s)
    ELSE IF ~get_amount_ok(disputed_tx)
         THEN Ret(IntErr("AmountMissingForTransaction"), s)
    ELSE LET r == Account_lock(s.accounts[tx.client], disputed_tx.amount.v)
         IN  CASE r.err.tag = "Ok" ->
                    Ret(Ok, [s EXCEPT !.accounts[tx.client] = r.acc,
                                      !.transaction_state[tx.tx] = "Disputed"])
               [] r.err.tag = "AccountLocked" -> Ret(TxErr("AccountLocked"), s)
               [] r.err.tag = "NotEnoughFunds" ->
                    Ret(TxErrFunds("NotEnoughFunds", r.err.available, r.err.required), s)
               [] OTHER -> Ret(IntErr("UnexpectedAccountError"), s)

\* A resolve that checks the client before the lifecycle state.
apply_resolve_client_first(s, tx) ==
    IF tx.tx \notin DOMAIN s.transaction_history
    THEN Ret(TxErr("TransactionNotFound"), s)
    ELSE LET resolved_tx == s.transaction_history[tx.tx] IN
    IF ~get_mut_state_ok(s, tx) THEN Ret(IntErr("StateMissingForTransaction"), s)
    ELSE IF ~assert_client_match(tx, resolved_tx)
         THEN Ret(TxErr("TransactionClientMismatch"), s)
    ELSE IF ~assert_state(s.transaction_state[tx.tx], "Disputed")
         THEN Ret(TxErr("TransactionInvalidState"), s)
    ELSE IF ~get_mut_account_ok(s, tx)
         THEN Ret(IntErr("AccountMissingForTransaction"), s)
    ELSE IF ~get_amount_ok(resolved_tx)
         THEN Ret(IntErr("AmountMissingForTransaction"), s)
    ELSE LET r == Account_release(s.accounts[tx.client], resolved_tx.amount.v)
         IN  CASE r.err.tag = "Ok" ->
                    Ret(Ok, [s EXCEPT !.accounts[tx.client] = r.acc,
                                      !.transaction_state[tx.tx] = "Resolved"])
               [] r.err.tag = "AccountLocked" -> Ret(TxErr("AccountLocked"), s)
               [] r.err.tag = "NotEnoughFunds" ->
                    Ret(IntErrFunds("FundsNotLocked", r.err.available, r.err.required), s)
               [] OTHER -> Ret(IntErr("UnexpectedAccountError"), s)

apply_resolve(s, tx) ==
    IF tx.tx \notin DOMAIN s.transaction_history
    THEN Ret(TxErr("TransactionNotFound"), s)
    ELSE LET resolved_tx == s.transaction_history[tx.tx] IN
    IF ~get_mut_state_ok(s, tx) THEN Ret(IntErr("StateMissingForTransaction"), s)
    ELSE IF ~assert_state(s.transaction_state[tx.tx], "Disputed")
         THEN Ret(TxErr("TransactionInvalidState"), s)
    ELSE IF ~assert_client_match(tx, resolved_tx)
         THEN Ret(TxErr("TransactionClientMismatch"), s)
    ELSE IF ~get_mut_account_ok(s, tx)
         THEN Ret(IntErr("AccountMissingForTransaction"), s)
    ELSE IF ~get_amount_ok(resolved_tx)
         THEN Ret(IntErr("AmountMissingForTransaction"), s)
    ELSE LET r == Account_release(s.accounts[tx.client], resolved_tx.amount.v)
         IN  CASE r.err.tag = "Ok" ->
                    Ret(Ok, [s EXCEPT !.accounts[tx.client] = r.acc,
                                      !.transaction_state[tx.tx] = "Resolved"])
               [] r.err.tag = "AccountLocked" -> Ret(TxErr("AccountLocked"), s)
               [] r.err.tag = "NotEnoughFunds" ->
                    Ret(IntErrFunds("FundsNotLocked", r.err.available, r.err.required), s)
               [] OTHER -> Ret(IntErr("UnexpectedAccountError"), s)

\* A chargeback that reports a shortage of held funds as the user-level
\* NotEnoughFunds, the way apply_dispute reports a shortage of available funds.
apply_chargeback_forgives(s, tx) ==
    IF tx.tx \notin DOMAIN s.transaction_history
    THEN Ret(TxErr("TransactionNotFound"), s)
    ELSE LET chargebacked_tx == s.transaction_history[tx.tx] IN
    IF ~get_mut_state_ok(s, tx) THEN Ret(IntErr("StateMissingForTransaction"), s)
    ELSE IF ~assert_state(s.transaction_state[tx.tx], "Disputed")
         THEN Ret(TxErr("TransactionInvalidState"), s)
    ELSE IF ~assert_client_match(tx, chargebacked_tx)
         THEN Ret(TxErr("TransactionClientMismatch"), s)
    ELSE IF ~get_mut_account_ok(s, tx)
         THEN Ret(IntErr("AccountMissingForTransaction"), s)
    ELSE IF ~get_amount_ok(chargebacked_tx)
         THEN Ret(IntErr("AmountMissingForTransaction"), s)
    ELSE LET r == Account_chargeback(s.accounts[tx.client], chargebacked_tx.amount.v)
         IN  CASE r.err.tag = "Ok" ->
                    Ret(Ok, [s EXCEPT !.accounts[tx.client] = r.acc,
                                      !.transaction_state[tx.tx] = "Chargebacked"])
               [] r.err.tag = "AccountLocked" -> Ret(TxErr("AccountLocked"), s)
               [] r.err.tag = "NotEnoughFunds" ->
                    Ret(TxErrFunds("NotEnoughFunds", r.err.available, r.err.required), s)
               [] OTHER -> Ret(IntErr("UnexpectedAccountError"), s)

apply_chargeback(s, tx) ==
    IF tx.tx \notin DOMAIN s.transaction_history
    THEN Ret(TxErr("TransactionNotFound"), s)
    ELSE LET chargebacked_tx == s.transaction_history[tx.tx] IN
    IF ~get_mut_state_ok(s, tx) THEN Ret(IntErr("StateMissingForTransaction"), s)
    ELSE IF ~assert_state(s.transaction_state[tx.tx], "Disputed")
         THEN Ret(TxErr("TransactionInvalidState"), s)
    ELSE IF ~assert_client_match(tx, chargebacked_tx)
         THEN Ret(TxErr("TransactionClientMismatch"), s)
    ELSE IF ~get_mut_account_ok(s, tx)
         THEN Ret(IntErr("AccountMissingForTransaction"), s)
    ELSE IF ~get_amount_ok(chargebacked_tx)
         THEN Ret(IntErr("AmountMissingForTransaction"), s)
    ELSE LET r == Account_chargeback(s.accounts[tx.client], chargebacked_tx.amount.v)
         IN  CASE r.err.tag = "Ok" ->
                    Ret(Ok, [s EXCEPT !.accounts[tx.client] = r.acc,
                                      !.transaction_state[tx.tx] = "Chargebacked"])
               [] r.err.tag = "AccountLocked" -> Ret(TxErr("AccountLocked"), s)
               [] r.err.tag = "NotEnoughFunds" ->
                    Ret(IntErrFunds("FundsNotLocked", r.err.available, r.err.required), s)
               [] OTHER -> Ret(IntErr("UnexpectedAccountError"), s)

apply_transaction(s, tx) ==
    CASE tx.tpe = "Deposit" -> apply_deposit(s, tx)
      [] tx.tpe = "Withdrawal" -> apply_withdrawal(s, tx)
      [] tx.tpe = "Dispute" -> apply_dispute(s, tx)
      [] tx.tpe = "Resolve" -> apply_resolve(s, tx)
      [] tx.tpe = "Chargeback" -> apply_chargeback(s, tx)

\* ------------------------------------------------------------------ main.rs
\* The executable (src/src/main.rs) carries its own Account and State, which its
\* driver loop calls.  A record there always has an amount (Decimal, not Option),
\* apply_deposit and apply_withdrawal fill transaction_history but never
\* transaction_state, and the account operations compare amount < available.
MainRecords ==
    [tpe : {"Deposit", "Withdrawal"}, client : Clients, tx : TxIds,
     amount : {Some(x) : x \in (-1)..MaxAmount}]
    \cup [tpe : {"Dispute", "Resolve", "Chargeback"}, client : Clients, tx : TxIds,
          amount : {Some(0)}]

main_Account_deposit(acc, amount) ==
    IF check_lock(acc).tag # "Ok" THEN [err |-> check_lock(acc), acc |-> acc]
    ELSE [err |-> AccOk, acc |-> [acc EXCEPT !.available = @ + amount]]

main_Account_withdraw(acc, amount) ==
    IF check_lock(acc).tag # "Ok" THEN [err |-> check_lock(acc), acc |-> acc]
    ELSE IF amount < acc.available
         THEN [err |-> NotEnoughFunds(acc.available, amount), acc |-> acc]
    ELSE [err |-> AccOk, acc |-> [acc EXCEPT !.available = @ - amount]]

main_Account_lock(acc, amount) ==
    IF check_lock(acc).tag # "Ok" THEN [err |-> check_lock(acc), acc |-> acc]
    ELSE IF amount < acc.available
         THEN [err |-> NotEnoughFunds(acc.available, amount), acc |-> acc]
    ELSE [err |-> AccOk,
          acc |-> [acc EXCEPT !.available = @ - amount, !.held = @ + amount]]

main_Account_release(acc, amount) ==
    IF check_lock(acc).tag # "Ok" THEN [err |-> check_lock(acc), acc |-> acc]
    ELSE IF amount < acc.available
         THEN [err |-> NotEnoughFunds(acc.available, amount), acc |-> acc]
    ELSE [err |-> AccOk,
          acc |-> [acc EXCEPT !.held = @ - amount, !.available = @ + amount]]

main_Account_chargeback(acc, amount) ==
    IF check_lock(acc).tag # "Ok" THEN [err |-> check_lock(acc), acc |-> acc]
    ELSE IF amount < acc.available
         THEN [err |-> NotEnoughFunds(acc.available, amount), acc |-> acc]
    ELSE [err |-> AccOk,
          acc |-> [acc EXCEPT !.held = @ - amount, !.locked = TRUE]]

main_apply_deposit(s, tx) ==
    LET accs == IF tx.client \in DOMAIN s.accounts
                THEN s.accounts
                ELSE Insert(s.accounts, tx.client, Account_new)
        s1 == [s EXCEPT !.accounts = accs]
        r == main_Account_deposit(accs[tx.client], tx.amount.v)
    IN  CASE r.err.tag = "Ok" ->
               Ret(Ok, [s1 EXCEPT !.accounts = Insert(accs, tx.client, r.acc),
                                  !.transaction_history = Insert(@, tx.tx, tx)])
          [] r.err.tag = "AccountLocked" -> Ret(TxErr("AccountLocked"), s1)
          [] OTHER -> Ret(IntErr("UnexpectedAccountError"), s1)

main_apply_withdrawal(s, tx) ==
    IF ~get_mut_account_ok(s, tx) THEN Ret(IntErr("AccountMissingForTransaction"), s)
    ELSE LET r == main_Account_withdraw(s.accounts[tx.client], tx.amount.v)
         IN  CASE r.err.tag = "Ok" ->
                    Ret(Ok, [s EXCEPT !.accounts = Insert(@, tx.client, r.acc),
                                      !.transaction_history = Insert(@, tx.tx, tx)])
               [] r.err.tag = "AccountLocked" -> Ret(TxErr("AccountLocked"), s)
               [] r.err.tag = "NotEnoughFunds" ->
                    Ret(TxErrFunds("NotEnoughFunds", r.err.available, r.err.required), s)

main_apply_dispute(s, tx) ==
    IF tx.tx \notin DOMAIN s.transaction_history
    THEN Ret(TxErr("DisputedTransactionNotFound"), s)
    ELSE LET disputed_tx == s.transaction_history[tx.tx] IN
    IF ~get_mut_state_ok(s, tx) THEN Ret(IntErr("StateMissingForTransaction"), s)
    ELSE IF ~assert_state(s.transaction_state[tx.tx], "Executed")
         THEN Ret(TxErr("DisputedTransactionInvalidState"), s)
    ELSE IF ~get_mut_account_ok(s, tx)
         THEN Ret(IntErr("AccountMissingForTransaction"), s)
    ELSE LET r == main_Account_lock(s.accounts[tx.client], disputed_tx.amount.v)
         IN  CASE r.err.tag = "Ok" ->
                    Ret(Ok, [s EXCEPT !.accounts[tx.client] = r.acc,
                                      !.transaction_state[tx.tx] = "Disputed"])
               [] r.err.tag = "AccountLocked" -> Ret(TxErr("AccountLocked"), s)
               [] r.err.tag = "NotEnoughFunds" ->
                    Ret(TxErrFunds("NotEnoughFunds", r.err.available, r.err.required), s)

main_apply_resolve(s, tx) ==
    IF tx.tx \notin DOMAIN s.transaction_history
    THEN Ret(TxErr("DisputedTransactionNotFound"), s)
    ELSE LET resolved_tx == s.transaction_history[tx.tx] IN
    IF ~get_mut_state_ok(s, tx) THEN Ret(IntErr("StateMissingForTransaction"), s)
    ELSE IF ~assert_state(s.transaction_state[tx.tx], "Disputed")
         THEN Ret(TxErr("DisputedTransactionInvalidState"), s)
    ELSE IF ~get_mut_account_ok(s, tx)
         THEN Ret(IntErr("AccountMissingForTransaction"), s)
    ELSE LET r == main_Account_release(s.accounts[tx.client], resolved_tx.amount.v)
         IN  CASE r.err.tag = "Ok" ->
                    Ret(Ok, [s EXCEPT !.accounts[tx.client] = r.acc,
                                      !.transaction_state[tx.tx] = "Resolved"])
               [] r.err.tag = "AccountLocked" -> Ret(TxErr("AccountLocked"), s)
               [] r.err.tag = "NotEnoughFunds" ->
                    Ret(IntErrFunds("FundsNotLocked", r.err.available, r.err.required), s)

main_apply_chargeback(s, tx) ==
    IF tx.tx \notin DOMAIN s.transaction_history
    THEN Ret(TxErr("DisputedTransactionNotFound"), s)
    ELSE LET chargebacked_tx == s.transaction_history[tx.tx] IN
    IF ~get_mut_state_ok(s, tx) THEN Ret(IntErr("StateMissingForTransaction"), s)
    ELSE IF ~assert_state(s.transaction_state[tx.tx], "Disputed")
         THEN Ret(TxErr("DisputedTransactionInvalidState"), s)
    ELSE IF ~get_mut_account_ok(s, tx)
         THEN Ret(IntErr("AccountMissingForTransaction"), s)
    ELSE LET r == main_Account_chargeback(s.accounts[tx.client],
                                          chargebacked_tx.amount.v)
         IN  CASE r.err.tag = "Ok" ->
                    Ret(Ok, [s EXCEPT !.accounts[tx.client] = r.acc,
                                      !.transaction_state[tx.tx] = "Chargebacked"])
               [] r.err.tag = "AccountLocked" -> Ret(TxErr("AccountLocked"), s)
               [] r.err.tag = "NotEnoughFunds" ->
                    Ret(IntErrFunds("FundsNotLocked", r.err.available, r.err.required), s)

main_apply_transaction(s, tx) ==
    CASE tx.tpe = "Deposit" -> main_apply_deposit(s, tx)
      [] tx.tpe = "Withdrawal" -> main_apply_withdrawal(s, tx)
      [] tx.tpe = "Dispute" -> main_apply_dispute(s, tx)
      [] tx.tpe = "Resolve" -> main_apply_resolve(s, tx)
      [] tx.tpe = "Chargeback" -> main_apply_chargeback(s, tx)

\* A row of the input that does not deserialize into a Transaction.
ParseError == [tpe |-> "ParseError", client |-> 0, tx |-> 0, amount |-> None]

\* The rows the reader can yield.
Rows == MainRecords \cup {ParseError}

\* What the loop does with a non-Ok result of apply_transaction (the or_else
\* closure and the ? after it): always carry on.
or_else_carries_on(res) == "Running"

\* What the loop does with the result of apply_transaction (the or_else closure
\* and the ? after it): a TransactionError is logged and the loop carries on, an
\* IntegrityError is logged and main returns Err.
or_else(res) == IF res.tier = "IntegrityError" THEN "Err" ELSE "Running"

\* The accounts as main writes them out.
ExportedClients(s) ==
    { [client |-> c,
       available |-> s.accounts[c].available,
       held |-> s.accounts[c].held,
       total |-> s.accounts[c].available + s.accounts[c].held,
       locked |-> s.accounts[c].locked] : c \in DOMAIN s.accounts }

\* ------------------------------------------------------------------ machine
VARIABLES
    accounts,             \* State.accounts
    transaction_history,  \* State.transaction_history
    transaction_state,    \* State.transaction_state
    last,                 \* the record of the latest apply_transaction call
    result,               \* what that call returned
    before,               \* the ledger as it was when that call was made
    applied,              \* per client: amounts of the Deposits / Withdrawals / Chargebacks that returned Ok
    terminal,             \* tx ids whose state has ever been Resolved or Chargebacked
    reused,               \* some applied Deposit / Withdrawal named a tx id already recorded
    recorded,             \* tx ids of the Deposits / Withdrawals that returned Ok
    rejected,             \* tx ids of the Deposits / Withdrawals that returned an error
    budget,               \* number of records still to be fed
    main_state,           \* main: the State of the run
    rows,                 \* main: the rows read from the input so far, in order
    fed,                  \* main: the apply_transaction calls made so far, with their results
    exit,                 \* main: "Running", or what main returned ("Ok" / "Err")
    stdout,               \* main: the client records written
    acct,                 \* Account: one account on its own
    acct_before,          \* Account: that account before the latest call on it
    acct_call,            \* Account: the latest call on it (operation and amount)
    acct_result           \* Account: what that call returned

vars == <<accounts, transaction_history, transaction_state, last, result, before,
          applied, terminal, reused, recorded, rejected, budget,
          main_state, rows, fed, exit, stdout,
          acct, acct_before, acct_call, acct_result>>

mainvars == <<main_state, rows, fed, exit, stdout>>

acctvars == <<acct, acct_before, acct_call, acct_result>>

ledgervars == <<accounts, transaction_history, transaction_state, last, result,
                before, applied, terminal, reused, recorded, rejected, budget>>

Ledger == [accounts |-> accounts,
           transaction_history |-> transaction_history,
           transaction_state |-> transaction_state]

NoRecord == [tpe |-> "None", client |-> 0, tx |-> 0, amount |-> None]

\* The whole machine as one value: the ledger, the latest call and the bookkeeping.
Machine == [s |-> Ledger, last |-> last, result |-> result, before |-> before,
            applied |-> applied, terminal |-> terminal, reused |-> reused,
            recorded |-> recorded, rejected |-> rejected]

\* The machine right after State::new().
Fresh == [s |-> State_new, last |-> NoRecord, result |-> Ok, before |-> State_new,
          applied |-> [c \in Clients |-> [deposits |-> 0, withdrawals |-> 0,
                                          chargebacks |-> 0, chargeback_calls |-> 0]],
          terminal |-> {}, reused |-> FALSE, recorded |-> {}, rejected |-> {}]

\* One call State::apply_transaction(tx), with the bookkeeping of what it did.
Feed(m, tx) ==
    LET r == apply_transaction(m.s, tx)
        ok == r.res.tier = "Ok"
    IN  [s |-> r.s,
         last |-> tx,
         result |-> r.res,
         before |-> m.s,
         applied |->
            IF ok /\ tx.tpe = "Deposit"
            THEN [m.applied EXCEPT ![tx.client].deposits = @ + tx.amount.v]
            ELSE IF ok /\ tx.tpe = "Withdrawal"
            THEN [m.applied EXCEPT ![tx.client].withdrawals = @ + tx.amount.v]
            ELSE IF ok /\ tx.tpe = "Chargeback"
            THEN [m.applied EXCEPT
                     ![tx.client].chargebacks =
                         @ + m.s.transaction_history[tx.tx].amount.v,
                     ![tx.client].chargeback_calls = @ + 1]
            ELSE m.applied,
         terminal |-> m.terminal \cup
            {t \in DOMAIN r.s.transaction_state :
                r.s.transaction_state[t] \in {"Resolved", "Chargebacked"}},
         reused |-> (m.reused \/ (/\ ok
                                  /\ tx.tpe \in {"Deposit", "Withdrawal"}
                                  /\ tx.tx \in DOMAIN m.s.transaction_history)),
         recorded |-> IF ok /\ tx.tpe \in {"Deposit", "Withdrawal"}
                      THEN m.recorded \cup {tx.tx} ELSE m.recorded,
         rejected |-> IF ~ok /\ tx.tpe \in {"Deposit", "Withdrawal"}
                      THEN m.rejected \cup {tx.tx} ELSE m.rejected]

\* The records of a sequence fed one after the other (the loop of run_transactions).
RECURSIVE run_transactions(_, _)
run_transactions(m, txs) ==
    IF txs = <<>> THEN m ELSE run_transactions(Feed(m, Head(txs)), Tail(txs))

Becomes(m) ==
    /\ accounts' = m.s.accounts
    /\ transaction_history' = m.s.transaction_history
    /\ transaction_state' = m.s.transaction_state
    /\ last' = m.last
    /\ result' = m.result
    /\ before' = m.before
    /\ applied' = m.applied
    /\ terminal' = m.terminal
    /\ reused' = m.reused
    /\ recorded' = m.recorded
    /\ rejected' = m.rejected

Starts(m) ==
    /\ accounts = m.s.accounts
    /\ transaction_history = m.s.transaction_history
    /\ transaction_state = m.s.transaction_state
    /\ last = m.last
    /\ result = m.result
    /\ before = m.before
    /\ applied = m.applied
    /\ terminal = m.terminal
    /\ reused = m.reused
    /\ recorded = m.recorded
    /\ rejected = m.rejected

\* main before its loop: State::new(), nothing read, nothing written.
MainStarts ==
    /\ main_state = State_new
    /\ rows = <<>>
    /\ fed = <<>>
    /\ exit = "Running"
    /\ stdout = {}

NoCall == [op |-> "None", amount |-> 0]

\* An account on which no operation has been called yet.
AcctStarts(a) ==
    /\ acct = a
    /\ acct_before = a
    /\ acct_call = NoCall
    /\ acct_result = AccOk

Init == Starts(Fresh) /\ budget = MaxRecords /\ MainStarts /\ AcctStarts(Account_new)

Apply(tx) ==
    /\ budget > 0
    /\ budget' = budget - 1
    /\ Becomes(Feed(Machine, tx))
    /\ UNCHANGED mainvars
    /\ UNCHANGED acctvars

Deposit == \E tx \in Records : tx.tpe = "Deposit" /\ Apply(tx)

Withdrawal == \E tx \in Records : tx.tpe = "Withdrawal" /\ Apply(tx)

Dispute == \E tx \in Records : tx.tpe = "Dispute" /\ Apply(tx)

Resolve == \E tx \in Records : tx.tpe = "Resolve" /\ Apply(tx)

Chargeback == \E tx \in Records : tx.tpe = "Chargeback" /\ Apply(tx)

Next == Deposit \/ Withdrawal \/ Dispute \/ Resolve \/ Chargeback

Spec == Init /\ [][Next]_vars

\* Streams of Deposit and Withdrawal records only.
NextDW == Deposit \/ Withdrawal

SpecDW == Init /\ [][NextDW]_vars

\* Streams that begin as tests.rs transactions_cannot_be_applied_to_locked_account
\* does: deposits by client 1, disputes on them, a chargeback that locks the
\* account (leaving the second deposit Deposited or Disputed), then TailRecords
\* further records of any kind.
Tx(tpe, client, tx, amount) == [tpe |-> tpe, client |-> client, tx |-> tx, amount |-> amount]

LockedPrefixes ==
    { << Tx("Deposit", 1, 1, Some(1)), Tx("Deposit", 1, 2, Some(1)),
         Tx("Dispute", 1, 1, None), Tx("Chargeback", 1, 1, None) >>,
      << Tx("Deposit", 1, 1, Some(1)), Tx("Deposit", 1, 2, Some(1)),
         Tx("Dispute", 1, 1, None), Tx("Dispute", 1, 2, None),
         Tx("Chargeback", 1, 1, None) >> }

InitLocked ==
    /\ \E txs \in LockedPrefixes : Starts(run_transactions(Fresh, txs))
    /\ budget = TailRecords
    /\ MainStarts
    /\ AcctStarts(Account_new)

\* Streams from a fresh ledger, and streams that continue a locked prefix.
SpecLocked == (Init \/ InitLocked) /\ [][Next]_vars

\* ------------------------------------------------------------------ driver
\* One iteration of the loop of main on a row that fails to parse: the row is
\* logged and ignored.
MainSkip ==
    /\ exit = "Running"
    /\ Len(rows) < MaxRows
    /\ rows' = Append(rows, ParseError)
    /\ UNCHANGED <<main_state, fed, exit, stdout>>
    /\ UNCHANGED ledgervars
    /\ UNCHANGED acctvars

\* One iteration of the loop of main on a row that parses: apply_transaction,
\* then carry on or return Err.
MainApply ==
    /\ exit = "Running"
    /\ Len(rows) < MaxRows
    /\ \E tx \in MainRecords :
          LET r == main_apply_transaction(main_state, tx)
          IN  /\ rows' = Append(rows, tx)
              /\ main_state' = r.s
              /\ fed' = Append(fed, [tx |-> tx, res |-> r.res])
              /\ exit' = or_else(r.res)
    /\ UNCHANGED stdout
    /\ UNCHANGED ledgervars
    /\ UNCHANGED acctvars

\* The input is exhausted: main writes one record per client and returns Ok.
MainEnd ==
    /\ exit = "Running"
    /\ stdout' = ExportedClients(main_state)
    /\ exit' = "Ok"
    /\ UNCHANGED <<main_state, rows, fed>>
    /\ UNCHANGED ledgervars
    /\ UNCHANGED acctvars

NextMain == MainSkip \/ MainApply \/ MainEnd

SpecMain == Init /\ [][NextMain]_vars

\* ------------------------------------------------------------------ Account calls
\* The operations of struct Account called directly, once, on an account with
\* any balances and either lock flag, with a negative, zero or positive amount.
AccountValues == [available : 0..MaxBalance, held : 0..MaxBalance, locked : BOOLEAN]

CallAmounts == (-1)..(MaxBalance + 1)

InitAccount ==
    /\ Starts(Fresh) /\ budget = MaxRecords /\ MainStarts
    /\ \E a \in AccountValues : AcctStarts(a)

AccountCall(op, amount, r) ==
    /\ acct_call = NoCall
    /\ acct_before' = acct
    /\ acct_call' = [op |-> op, amount |-> amount]
    /\ acct_result' = r.err
    /\ acct' = r.acc
    /\ UNCHANGED ledgervars
    /\ UNCHANGED mainvars

AccountDeposit ==
    \E amount \in CallAmounts : AccountCall("deposit", amount, Account_deposit(acct, amount))

AccountWithdraw ==
    \E amount \in CallAmounts : AccountCall("withdraw", amount, Account_withdraw(acct, amount))

AccountLock ==
    \E amount \in CallAmounts : AccountCall("lock", amount, Account_lock(acct, amount))

AccountRelease ==
    \E amount \in CallAmounts : AccountCall("release", amount, Account_release(acct, amount))

AccountChargeback ==
    \E amount \in CallAmounts :
        AccountCall("chargeback", amount, Account_chargeback(acct, amount))

NextAccount ==
    AccountDeposit \/ AccountWithdraw \/ AccountLock \/ AccountRelease
        \/ AccountChargeback

SpecAccount == InitAccount /\ [][NextAccount]_vars

\* ------------------------------------------------------------------ any ledger
\* Ledgers that need not be reachable from State::new(): client 1 with any
\* account or none, client 2 with a new account or none, tx 1 on record or not as
\* a Deposit or Withdrawal of either client with any amount or none, and any
\* lifecycle state or none for it.
AnyAccounts ==
    {Empty, Insert(Empty, 2, Account_new)}
    \cup {Insert(Empty, 1, a) : a \in AccountValues}
    \cup {Insert(Insert(Empty, 1, a), 2, Account_new) : a \in AccountValues}

AnyHistories ==
    {Empty}
    \cup {Insert(Empty, 1, tx) :
            tx \in [tpe : {"Deposit", "Withdrawal"}, client : Clients, tx : {1},
                    amount : {None} \cup {Some(x) : x \in 0..MaxBalance}]}

AnyStates == {Empty} \cup {Insert(Empty, 1, st) : st \in TransactionState}

AnyLedgers ==
    [accounts : AnyAccounts, transaction_history : AnyHistories,
     transaction_state : AnyStates]

\* apply_transaction called on any of these ledgers.
InitAny ==
    /\ \E s \in AnyLedgers : Starts([Fresh EXCEPT !.s = s, !.before = s])
    /\ budget = AnyRecords
    /\ MainStarts
    /\ AcctStarts(Account_new)

SpecAny == InitAny /\ [][Next]_vars

\* ------------------------------------------------------------------ claims
Called == last # NoRecord

DepositKinds == {"Deposit", "Withdrawal"}

DisputeKinds == {"Dispute", "Resolve", "Chargeback"}

\* The account of the latest call's client was locked when the call was made.
LockedBefore ==
    /\ Called
    /\ last.client \in DOMAIN before.accounts
    /\ before.accounts[last.client].locked

\* The record passes every check its handler makes before the account operation.
PassesEarlierChecks(s, tx) ==
    IF tx.tpe \in DepositKinds THEN tx.amount.some
    ELSE /\ tx.tx \in DOMAIN s.transaction_history
         /\ tx.tx \in DOMAIN s.transaction_state
         /\ s.transaction_state[tx.tx] =
                (IF tx.tpe = "Dispute" THEN "Deposited" ELSE "Disputed")
         /\ s.transaction_history[tx.tx].client = tx.client

\* The latest call was of the given kind, named tx id t and returned Ok.
NamedOk(kind, t) == last.tpe = kind /\ last.tx = t /\ result.tier = "Ok"

\* The step is a successful call of the given kind on the tx id whose Dispute
\* succeeded in the call right before it.
FollowsDispute(kind) ==
    /\ last.tpe = "Dispute" /\ result.tier = "Ok"
    /\ last'.tpe = kind /\ last'.tx = last.tx /\ result'.tier = "Ok"

\* No transaction of client c is under dispute in ledger s.
NoOpenDispute(s, c) ==
    \A t \in DOMAIN s.transaction_state :
        s.transaction_state[t] = "Disputed" => s.transaction_history[t].client # c

\* tests.rs dispute_resolve_should_work / dispute_chargeback_should_work:
\* deposit 100, withdraw 50, deposit 50 (tx 1, 2, 3 of client 1), dispute tx 1,
\* then resolve or chargeback tx 1.
ExampleStream(kind) ==
    << Tx("Deposit", 1, 1, Some(100)), Tx("Withdrawal", 1, 2, Some(50)),
       Tx("Deposit", 1, 3, Some(50)), Tx("Dispute", 1, 1, None), Tx(kind, 1, 1, None) >>

ExampleAccount(kind) == run_transactions(Fresh, ExampleStream(kind)).s.accounts[1]

\* C1: a call that returns an error (of either tier) has applied nothing: the
\* accounts map (its set of clients included), the transaction history and the
\* lifecycle-state map are what they were before the call.
C1_ErrorAppliesNothing == (Called /\ result.tier # "Ok") => Ledger = before

\* tests.rs withdrawals_and_deposits_should_work: deposits and withdrawals of
\* 100, 200, -190, 1000, -800, -20, 200, -490 by client 1, tx ids 0..7.
SumStream ==
    << Tx("Deposit", 1, 0, Some(100)), Tx("Deposit", 1, 1, Some(200)),
       Tx("Withdrawal", 1, 2, Some(190)), Tx("Deposit", 1, 3, Some(1000)),
       Tx("Withdrawal", 1, 4, Some(800)), Tx("Withdrawal", 1, 5, Some(20)),
       Tx("Deposit", 1, 6, Some(200)), Tx("Withdrawal", 1, 7, Some(490)) >>

\* C2: on streams of Deposit and Withdrawal records, a client's available balance
\* is the sum of its deposits that returned Ok minus the sum of its withdrawals
\* that returned Ok; failed records contribute nothing.  The stream of the test
\* ends with available 100 + 200 - 190 + 1000 - 800 - 20 + 200 - 490 = 0.
C2_AvailableIsAppliedSum ==
    /\ run_transactions(Fresh, SumStream).s.accounts[1].available = 0
    /\ \A c \in Clients :
        IF c \in DOMAIN accounts
        THEN accounts[c].available = applied[c].deposits - applied[c].withdrawals
        ELSE applied[c].deposits = 0 /\ applied[c].withdrawals = 0

C2_Witness ==
    \E c \in DOMAIN accounts :
        /\ applied[c].deposits = 2
        /\ applied[c].withdrawals = 2
        /\ last.client = c
        /\ last.tpe = "Withdrawal"
        /\ result.error = "NotEnoughFunds"

\* C3: in every reachable ledger every account has available >= 0 and held >= 0.
C3_BalancesNonNegative ==
    \A c \in DOMAIN accounts : accounts[c].available >= 0 /\ accounts[c].held >= 0

C3_Witness ==
    /\ Called
    /\ last.tpe = "Dispute"
    /\ result.error = "NotEnoughFunds"
    /\ accounts[last.client].available = 0
    /\ accounts[last.client].held > 0

\* C4: a locked account is frozen: no call of any kind by any client changes its
\* available, held or locked fields, and the account stays in the map.
C4_LockedAccountFrozen ==
    Called =>
        \A c \in DOMAIN before.accounts :
            before.accounts[c].locked =>
                (c \in DOMAIN accounts /\ accounts[c] = before.accounts[c])

C4_Witness ==
    /\ LockedBefore
    /\ last.tpe = "Resolve"
    /\ PassesEarlierChecks(before, last)
    /\ before.accounts[last.client].held > 0

\* C5 (as claimed): on a locked account every record of its client fails with
\* TransactionError::AccountLocked and with no other error.
C5_LockedAlwaysAccountLocked == LockedBefore => result = TxErr("AccountLocked")

\* C5 (amended): on a locked account every record of its client fails with a
\* TransactionError and leaves the account as it was; the error is AccountLocked
\* exactly when the record passes the checks made before the account operation
\* (amount present; history entry, lifecycle state and client match), and is the
\* error of the first of those checks that fails otherwise.
C5_LockedAlwaysFails ==
    LockedBefore =>
        /\ result.tier = "TransactionError"
        /\ accounts[last.client] = before.accounts[last.client]
        /\ (result.error = "AccountLocked") <=> PassesEarlierChecks(before, last)
        /\ result.error \in {"AccountLocked", "AmountNotProvided", "TransactionNotFound",
                             "TransactionInvalidState", "TransactionClientMismatch"}

C5_Witness ==
    /\ LockedBefore
    /\ last.tpe = "Chargeback"
    /\ result.error = "AccountLocked"

\* The lifecycle state of tx id t was created by the latest call, as a successful
\* Deposit or Withdrawal with that id creates it.
CreatedByDeposit(t) ==
    \/ NamedOk("Deposit", t) /\ transaction_state[t] = "Deposited"
    \/ NamedOk("Withdrawal", t) /\ transaction_state[t] = "Withdrawn"

\* The latest call left the lifecycle state of t alone or moved it along one of
\* the three transitions of the dispute workflow.
KeptOrDisputeTransition(t) ==
    \/ transaction_state[t] = before.transaction_state[t]
    \/ /\ NamedOk("Dispute", t)
       /\ before.transaction_state[t] = "Deposited"
       /\ transaction_state[t] = "Disputed"
    \/ /\ NamedOk("Resolve", t)
       /\ before.transaction_state[t] = "Disputed"
       /\ transaction_state[t] = "Resolved"
    \/ /\ NamedOk("Chargeback", t)
       /\ before.transaction_state[t] = "Disputed"
       /\ transaction_state[t] = "Chargebacked"

\* C6 (as claimed): a lifecycle state is created only by a successful Deposit (as
\* Deposited) or Withdrawal (as Withdrawn) with that id, an existing entry changes
\* only Deposited->Disputed by Dispute, Disputed->Resolved by Resolve and
\* Disputed->Chargebacked by Chargeback, and no entry is removed.
C6_OnlyDisputeTransitions ==
    \A t \in TxIds :
        IF t \notin DOMAIN before.transaction_state
        THEN t \in DOMAIN transaction_state => CreatedByDeposit(t)
        ELSE t \in DOMAIN transaction_state /\ KeptOrDisputeTransition(t)

\* C6 (amended): as claimed, except that a successful Deposit or Withdrawal that
\* reuses a recorded tx id overwrites the entry, whatever its state, with
\* Deposited or Withdrawn.
C6_TransitionsOrOverwrite ==
    \A t \in TxIds :
        IF t \notin DOMAIN before.transaction_state
        THEN t \in DOMAIN transaction_state => CreatedByDeposit(t)
        ELSE /\ t \in DOMAIN transaction_state
             /\ KeptOrDisputeTransition(t) \/ CreatedByDeposit(t)

C6_Witness ==
    /\ Called
    /\ last.tpe = "Withdrawal"
    /\ result.tier = "Ok"
    /\ last.tx \in DOMAIN before.transaction_state
    /\ before.transaction_state[last.tx] = "Disputed"
    /\ transaction_state[last.tx] = "Withdrawn"

\* C7 (as claimed): once a tx id has reached Resolved or Chargebacked, no later
\* Dispute, Resolve or Chargeback naming it returns Ok, and a Dispute on it fails
\* with TransactionInvalidState.
C7_TerminalForever ==
    [][(last'.tpe \in DisputeKinds /\ last'.tx \in terminal) =>
            /\ result'.tier # "Ok"
            /\ last'.tpe = "Dispute" => result' = TxErr("TransactionInvalidState")]_vars

\* C7 (amended): while a tx id's lifecycle state is Resolved or Chargebacked,
\* every Dispute, Resolve or Chargeback naming it fails with
\* TransactionInvalidState, and the state changes only when a Deposit or
\* Withdrawal reusing that id succeeds and overwrites the entry.
C7_TerminalUntilOverwritten ==
    \A t \in DOMAIN before.transaction_state :
        before.transaction_state[t] \in {"Resolved", "Chargebacked"} =>
            /\ (last.tpe \in DisputeKinds /\ last.tx = t) =>
                    result = TxErr("TransactionInvalidState")
            /\ t \in DOMAIN transaction_state
            /\ transaction_state[t] # before.transaction_state[t] =>
                    NamedOk("Deposit", t) \/ NamedOk("Withdrawal", t)

C7_Witness ==
    /\ Called
    /\ last.tpe = "Dispute"
    /\ last.tx \in DOMAIN before.transaction_state
    /\ before.transaction_state[last.tx] = "Resolved"
    /\ before.transaction_history[last.tx].client = last.client
    /\ before.accounts[last.client].available > 0
    /\ result = TxErr("TransactionInvalidState")

\* C8: no call returns an IntegrityError, whatever the stream of well-typed
\* records (reused tx ids, zero amounts and mixed clients included).
C8_NoIntegrityError == result.tier # "IntegrityError"

C8_Witness ==
    /\ reused
    /\ last.tpe \in {"Resolve", "Chargeback"}
    /\ result.tier = "Ok"
    /\ accounts[last.client].held > 0

\* C9 (as claimed): a Dispute that returns Ok followed at once by a Resolve of the
\* same tx id that returns Ok leaves the owner's available and held at their
\* values before the Dispute and locked false; held is zero when no other
\* transaction of that client is under dispute.
C9_DisputeResolveRoundTrip ==
    [][FollowsDispute("Resolve") =>
        LET c == last'.client
        IN  /\ accounts'[c].available = before.accounts[c].available
            /\ accounts'[c].held = before.accounts[c].held
            /\ ~accounts'[c].locked
            /\ NoOpenDispute(Ledger', c) => accounts'[c].held = 0]_vars

\* C9 (amended): as claimed, with held zero when no other transaction of that
\* client is under dispute and no Deposit or Withdrawal has reused a tx id; the
\* example stream of tests.rs ends with available 100, held 0, not locked.
C9_RoundTripUniqueIds ==
    [][/\ ExampleAccount("Resolve") = [available |-> 100, held |-> 0, locked |-> FALSE]
       /\ FollowsDispute("Resolve") =>
            LET c == last'.client
            IN  /\ accounts'[c].available = before.accounts[c].available
                /\ accounts'[c].held = before.accounts[c].held
                /\ ~accounts'[c].locked
                /\ (NoOpenDispute(Ledger', c) /\ ~reused') => accounts'[c].held = 0]_vars

C9_Witness ==
    /\ Called
    /\ last.tpe = "Resolve"
    /\ result.tier = "Ok"
    /\ ~reused
    /\ accounts[last.client] = [available |-> 2, held |-> 0, locked |-> FALSE]

\* C10: a Dispute on a deposit of amount a that returns Ok followed by a
\* Chargeback of the same tx id that returns Ok leaves the owner's available at
\* its value before the Dispute minus a, held at its value before the Dispute,
\* locked true and the lifecycle state Chargebacked; the example stream of
\* tests.rs ends with available 0, held 0, locked.
C10_DisputeChargeback ==
    [][/\ ExampleAccount("Chargeback") = [available |-> 0, held |-> 0, locked |-> TRUE]
       /\ FollowsDispute("Chargeback") =>
            LET c == last'.client
                a == before.transaction_history[last.tx].amount.v
            IN  /\ accounts'[c].available = before.accounts[c].available - a
                /\ accounts'[c].held = before.accounts[c].held
                /\ accounts'[c].locked
                /\ transaction_state'[last.tx] = "Chargebacked"]_vars

C10_Witness ==
    /\ Called
    /\ last.tpe = "Chargeback"
    /\ result.tier = "Ok"
    /\ before.accounts[last.client].held = 1
    /\ accounts[last.client] = [available |-> 1, held |-> 0, locked |-> TRUE]

\* The lifecycle state a Dispute, Resolve or Chargeback requires of the
\* transaction it names.
RequiredState(kind) == IF kind = "Dispute" THEN "Deposited" ELSE "Disputed"

\* The latest call was a Dispute, Resolve or Chargeback naming a recorded tx id
\* whose recorded client is not the client of the call.
ClientMismatch ==
    /\ last.tpe \in DisputeKinds
    /\ last.tx \in DOMAIN before.transaction_history
    /\ before.transaction_history[last.tx].client # last.client

\* C11 as stated: a Dispute, Resolve or Chargeback whose client differs from the
\* referenced transaction's client fails with TransactionClientMismatch whatever
\* the lifecycle state of that transaction, and no account changes.
C11_MismatchInEveryState ==
    ClientMismatch =>
        /\ result = TxErr("TransactionClientMismatch")
        /\ accounts = before.accounts

\* C11: a Dispute, Resolve or Chargeback whose client differs from the referenced
\* transaction's client always fails with a TransactionError and changes nothing;
\* the error is TransactionClientMismatch when the referenced transaction is in
\* the state the record requires (Deposited for Dispute, Disputed for Resolve and
\* Chargeback) and TransactionInvalidState otherwise, assert_state coming first.
C11_MismatchAfterStateCheck ==
    ClientMismatch =>
        /\ Ledger = before
        /\ result = IF before.transaction_state[last.tx] = RequiredState(last.tpe)
                    THEN TxErr("TransactionClientMismatch")
                    ELSE TxErr("TransactionInvalidState")

C11_Witness ==
    /\ ClientMismatch
    /\ last.tpe = "Chargeback"
    /\ DOMAIN accounts = Clients
    /\ before.transaction_state[last.tx] = "Disputed"
    /\ accounts[before.transaction_history[last.tx].client].held = 1
    /\ result = TxErr("TransactionClientMismatch")

\* The latest call was a Dispute, Resolve or Chargeback naming a tx id that no
\* Deposit or Withdrawal has been applied under.
NamesUnrecorded == last.tpe \in DisputeKinds /\ last.tx \notin recorded

\* C12: a Dispute, Resolve or Chargeback naming a tx id under which no Deposit or
\* Withdrawal has returned Ok fails with TransactionNotFound and leaves accounts,
\* history and lifecycle state as they were; a Deposit or Withdrawal that returned
\* an error adds nothing to the history or to the lifecycle states, so the tx ids
\* on record are exactly those of the Deposits and Withdrawals that returned Ok.
C12_UnrecordedNotFound ==
    /\ NamesUnrecorded =>
            result = TxErr("TransactionNotFound") /\ Ledger = before
    /\ (last.tpe \in DepositKinds /\ result.tier # "Ok") =>
            /\ transaction_history = before.transaction_history
            /\ transaction_state = before.transaction_state
    /\ DOMAIN transaction_history = recorded
    /\ DOMAIN transaction_state = recorded

C12_Witness ==
    /\ NamesUnrecorded
    /\ last.tx \in rejected
    /\ recorded # {}
    /\ result = TxErr("TransactionNotFound")

\* The latest call named a recorded tx id whose lifecycle state was st.
NamedInState(st) ==
    /\ last.tx \in DOMAIN before.transaction_history
    /\ last.tx \in DOMAIN before.transaction_state
    /\ before.transaction_state[last.tx] = st

\* C13: a Resolve or Chargeback naming a recorded tx id whose lifecycle state is
\* Deposited, Withdrawn, Resolved or Chargebacked (not Disputed) fails with
\* TransactionInvalidState and leaves every account (available, held, locked),
\* the history and every lifecycle state as they were.
C13_NotDisputedInvalidState ==
    \A st \in TransactionState \ {"Disputed"} :
        (last.tpe \in {"Resolve", "Chargeback"} /\ NamedInState(st)) =>
            result = TxErr("TransactionInvalidState") /\ Ledger = before

C13_Witness ==
    /\ last.tpe = "Chargeback"
    /\ NamedInState("Resolved")
    /\ before.transaction_history[last.tx].client = last.client
    /\ result = TxErr("TransactionInvalidState")
    /\ accounts[last.client].available = 1

\* C14: a Dispute naming a tx id whose lifecycle state is Withdrawn fails with
\* TransactionInvalidState; the accounts are unchanged and the transaction stays
\* Withdrawn.
C14_DisputeOfWithdrawalFails ==
    (last.tpe = "Dispute" /\ NamedInState("Withdrawn")) =>
        /\ result = TxErr("TransactionInvalidState")
        /\ accounts = before.accounts
        /\ transaction_state[last.tx] = "Withdrawn"
        /\ Ledger = before

C14_Witness ==
    /\ last.tpe = "Dispute"
    /\ NamedInState("Withdrawn")
    /\ before.transaction_history[last.tx].client = last.client
    /\ before.transaction_history[last.tx].amount = Some(1)
    /\ before.accounts[last.client].available = 1
    /\ ~before.accounts[last.client].locked
    /\ result = TxErr("TransactionInvalidState")

\* The latest call was a Dispute naming a Deposited transaction whose amount was
\* more than its owner had available.
DisputeOverAvailable ==
    /\ last.tpe = "Dispute"
    /\ NamedInState("Deposited")
    /\ LET owner == before.transaction_history[last.tx].client
       IN  /\ owner \in DOMAIN before.accounts
           /\ before.transaction_history[last.tx].amount.v >
                  before.accounts[owner].available

\* The same Dispute returns Ok once a Deposit of the missing funds has been applied.
DisputableAfterTopUp ==
    LET short == before.transaction_history[last.tx].amount.v
                     - accounts[last.client].available
        topup == Tx("Deposit", last.client, CHOOSE t \in TxIds : t # last.tx,
                    Some(short))
        funded == apply_transaction(Ledger, topup)
    IN  /\ funded.res = Ok
        /\ apply_transaction(funded.s, last).res = Ok

WithdrawalFromAccount ==
    /\ last.tpe = "Withdrawal"
    /\ last.amount.some
    /\ last.client \in DOMAIN before.accounts

\* C16 as stated: a Withdrawal of more than the client's available balance fails
\* with NotEnoughFunds and changes nothing; a Withdrawal of exactly the available
\* balance succeeds and leaves available at zero.
C16_WithdrawalAgainstAvailable ==
    WithdrawalFromAccount =>
        LET acc == before.accounts[last.client] IN
        /\ last.amount.v > acc.available =>
                /\ result.tier = "TransactionError" /\ result.error = "NotEnoughFunds"
                /\ Ledger = before
        /\ last.amount.v = acc.available =>
                result.tier = "Ok" /\ accounts[last.client].available = 0

\* C16: on an account that is not locked, a Withdrawal of more than the available
\* balance fails with NotEnoughFunds (reporting the balance and the amount) and
\* changes nothing, and a Withdrawal of exactly the available balance returns
\* Ok, leaves available at zero and held and locked as they were, and is
\* recorded as Withdrawn; on a locked account either one fails with
\* AccountLocked and changes nothing.
C16_UnlockedWithdrawalAgainstAvailable ==
    WithdrawalFromAccount =>
        LET acc == before.accounts[last.client] IN
        /\ (acc.locked /\ last.amount.v >= acc.available) =>
                result = TxErr("AccountLocked") /\ Ledger = before
        /\ (~acc.locked /\ last.amount.v > acc.available) =>
                /\ result = TxErrFunds("NotEnoughFunds", acc.available, last.amount.v)
                /\ Ledger = before
        /\ (~acc.locked /\ last.amount.v = acc.available) =>
                /\ result = Ok
                /\ accounts = [before.accounts EXCEPT ![last.client].available = 0]
                /\ transaction_history[last.tx] = last
                /\ transaction_state[last.tx] = "Withdrawn"

C16_Witness ==
    /\ WithdrawalFromAccount
    /\ before.accounts[last.client] = [available |-> 0, held |-> 1, locked |-> FALSE]
    /\ last.amount = Some(1)
    /\ result = TxErrFunds("NotEnoughFunds", 0, 1)
    /\ Ledger = before

\* C17: a Withdrawal for a client that has no account fails with UnknownAccount
\* whatever its amount (missing, negative, zero or positive), no account is
\* created for that client, and nothing else changes.
C17_WithdrawalUnknownAccount ==
    (last.tpe = "Withdrawal" /\ last.client \notin DOMAIN before.accounts) =>
        /\ result = TxErr("UnknownAccount")
        /\ last.client \notin DOMAIN accounts
        /\ Ledger = before

C17_Witness ==
    /\ last.tpe = "Withdrawal"
    /\ last.client \notin DOMAIN before.accounts
    /\ last.amount = None
    /\ DOMAIN accounts = Clients \ {last.client}
    /\ result = TxErr("UnknownAccount")

\* The available and held balance of client c in ledger s; a client without an
\* account has neither.
Balances(s, c) ==
    IF c \in DOMAIN s.accounts
    THEN [available |-> s.accounts[c].available, held |-> s.accounts[c].held]
    ELSE [available |-> 0, held |-> 0]

BalancesUnchanged == \A c \in Clients : Balances(Ledger, c) = Balances(before, c)

\* C18: a Deposit or Withdrawal without amount fails with a TransactionError
\* (AmountNotProvided, or UnknownAccount for a Withdrawal of a client without
\* account), never Ok and never an IntegrityError; no account's available, held
\* or locked changes, and nothing is recorded.
C18_MissingAmountFails ==
    (last.tpe \in DepositKinds /\ ~last.amount.some) =>
        /\ result.tier = "TransactionError"
        /\ result = IF last.tpe = "Withdrawal" /\ last.client \notin DOMAIN before.accounts
                    THEN TxErr("UnknownAccount")
                    ELSE TxErr("AmountNotProvided")
        /\ BalancesUnchanged
        /\ \A c \in DOMAIN before.accounts : accounts[c] = before.accounts[c]
        /\ transaction_history = before.transaction_history
        /\ transaction_state = before.transaction_state

C18_Witness ==
    /\ last.tpe = "Deposit"
    /\ last.amount = None
    /\ last.client \in DOMAIN before.accounts
    /\ before.accounts[last.client].available = 1
    /\ result = TxErr("AmountNotProvided")
    /\ accounts = before.accounts

\* C19: a Deposit or Withdrawal with a negative amount fails with a
\* TransactionError, never Ok and never an IntegrityError, and no account's
\* available, held or locked changes; on an unlocked account the error is
\* NegativeAmountProvided.  A zero amount is never refused as negative: a Deposit
\* of zero, and a Withdrawal of zero by a client that has an account, return Ok
\* on an unlocked account and are recorded.
C19_NegativeAmountFails ==
    /\ (last.tpe \in DepositKinds /\ last.amount.some /\ last.amount.v < 0) =>
            /\ result.tier = "TransactionError"
            /\ BalancesUnchanged
            /\ \A c \in DOMAIN before.accounts : accounts[c] = before.accounts[c]
            /\ transaction_history = before.transaction_history
            /\ transaction_state = before.transaction_state
            /\ (last.client \in DOMAIN before.accounts
                    /\ ~before.accounts[last.client].locked) =>
                        result = TxErr("NegativeAmountProvided")
            /\ (last.tpe = "Deposit" /\ last.client \notin DOMAIN before.accounts) =>
                        result = TxErr("NegativeAmountProvided")
    /\ (last.tpe \in DepositKinds /\ last.amount = Some(0)) =>
            /\ result.error # "NegativeAmountProvided"
            /\ BalancesUnchanged
            /\ (last.client \in DOMAIN before.accounts
                    /\ ~before.accounts[last.client].locked) =>
                        result = Ok /\ transaction_history[last.tx] = last
            /\ (last.tpe = "Deposit" /\ last.client \notin DOMAIN before.accounts) =>
                        result = Ok /\ accounts[last.client] = Account_new

C19_Witness ==
    /\ last.tpe = "Withdrawal"
    /\ last.amount = Some(-1)
    /\ last.client \in DOMAIN before.accounts
    /\ before.accounts[last.client] = [available |-> 1, held |-> 0, locked |-> FALSE]
    /\ result = TxErr("NegativeAmountProvided")
    /\ accounts = before.accounts

\* The records among the rows read, in input order.
ParsedRows == SelectSeq(rows, LAMBDA r : r # ParseError)

\* The calls main makes on a sequence of records when it starts from ledger s:
\* one after the other, up to and including the first one that returns an
\* IntegrityError.
RECURSIVE CallsUntilIntegrityError(_, _)
CallsUntilIntegrityError(s, txs) ==
    IF txs = <<>> THEN <<>>
    ELSE LET r == main_apply_transaction(s, Head(txs))
         IN  IF r.res.tier = "IntegrityError"
             THEN << [tx |-> Head(txs), res |-> r.res] >>
             ELSE << [tx |-> Head(txs), res |-> r.res] >>
                      \o CallsUntilIntegrityError(r.s, Tail(txs))

\* C20: the loop of main calls apply_transaction on the records of the input in
\* input order, each on the ledger the calls before it left; after a call that
\* returned a TransactionError the run is still going (or has ended in success),
\* and every record read so far has been applied; a call that returned an
\* IntegrityError is the last call of the run, the run has returned Err, and
\* nothing has been written.
C20_RunTermination ==
    /\ fed = CallsUntilIntegrityError(State_new, ParsedRows)
    /\ Len(fed) = Len(ParsedRows)
    /\ \A i \in 1..Len(fed) :
          /\ fed[i].tx = ParsedRows[i]
          /\ fed[i].res.tier = "TransactionError" =>
                (i < Len(fed) \/ exit \in {"Running", "Ok"})
          /\ fed[i].res.tier = "IntegrityError" =>
                (i = Len(fed) /\ exit = "Err" /\ stdout = {})
    /\ exit = "Err" => (fed # <<>> /\ fed[Len(fed)].res.tier = "IntegrityError")

C20_Witness ==
    /\ exit = "Err"
    /\ Len(fed) = MaxRows
    /\ fed[1].res.tier = "TransactionError"
    /\ fed[2].res.tier = "Ok"
    /\ fed[3].res.tier = "IntegrityError"
    /\ main_state.accounts # Empty

\* C21: Account::release called with amount > held on an unlocked account fails
\* with NotEnoughFunds whose available field is the account's held balance and
\* whose required field is the amount, and leaves the account unchanged.
C21_ReleaseReportsHeld ==
    (/\ acct_call.op = "release"
     /\ ~acct_before.locked
     /\ acct_call.amount > acct_before.held) =>
        /\ acct_result = NotEnoughFunds(acct_before.held, acct_call.amount)
        /\ acct = acct_before

\* The latest call was a Dispute, Resolve or Chargeback on a ledger that held
\* what the lookups of the handler need: a lifecycle state for a recorded tx id,
\* an account for the record's client, an amount in the recorded transaction.
LookupsSucceed ==
    /\ last.tpe \in DisputeKinds
    /\ last.tx \in DOMAIN before.transaction_history =>
          /\ last.tx \in DOMAIN before.transaction_state
          /\ last.client \in DOMAIN before.accounts
          /\ before.transaction_history[last.tx].amount.some

\* The result of the first check that fails, in the order history entry,
\* lifecycle state, client, account lock, funds; Ok when none fails.
FirstFailingCheck(s, tx) ==
    IF tx.tx \notin DOMAIN s.transaction_history THEN TxErr("TransactionNotFound")
    ELSE IF s.transaction_state[tx.tx] # RequiredState(tx.tpe)
         THEN TxErr("TransactionInvalidState")
    ELSE IF s.transaction_history[tx.tx].client # tx.client
         THEN TxErr("TransactionClientMismatch")
    ELSE IF s.accounts[tx.client].locked THEN TxErr("AccountLocked")
    ELSE LET amount == s.transaction_history[tx.tx].amount.v
             acc == s.accounts[tx.client]
         IN  IF tx.tpe = "Dispute" /\ amount > acc.available
             THEN TxErrFunds("NotEnoughFunds", acc.available, amount)
             ELSE IF tx.tpe # "Dispute" /\ amount > acc.held
             THEN IntErrFunds("FundsNotLocked", acc.available, amount)
             ELSE Ok

\* The number of the five checks that the record fails on ledger s.
FailingChecks(s, tx) ==
    IF tx.tx \notin DOMAIN s.transaction_history THEN 1
    ELSE LET amount == s.transaction_history[tx.tx].amount.v
             acc == s.accounts[tx.client]
         IN  (IF s.transaction_state[tx.tx] # RequiredState(tx.tpe) THEN 1 ELSE 0)
             + (IF s.transaction_history[tx.tx].client # tx.client THEN 1 ELSE 0)
             + (IF acc.locked THEN 1 ELSE 0)
             + (IF amount > (IF tx.tpe = "Dispute" THEN acc.available ELSE acc.held)
                THEN 1 ELSE 0)

\* C22: Dispute, Resolve and Chargeback report the first check that fails in the
\* order: history entry (TransactionNotFound), lifecycle state
\* (TransactionInvalidState), client (TransactionClientMismatch), account lock
\* (AccountLocked), funds (NotEnoughFunds for Dispute, escalated to
\* FundsNotLocked for Resolve and Chargeback); a failed call changes nothing.
C22_DisputeCheckOrder ==
    LookupsSucceed =>
        /\ result = FirstFailingCheck(before, last)
        /\ result.tier # "Ok" => Ledger = before

C22_Witness ==
    /\ LookupsSucceed
    /\ last.tpe = "Dispute"
    /\ last.tx \in DOMAIN before.transaction_history
    /\ FailingChecks(before, last) = 4
    /\ result = TxErr("TransactionInvalidState")

\* The result of the first check of a Withdrawal that fails, in the order
\* account present, amount present, account lock, sign of the amount, funds.
FirstFailingWithdrawalCheck(s, tx) ==
    IF tx.client \notin DOMAIN s.accounts THEN TxErr("UnknownAccount")
    ELSE IF ~tx.amount.some THEN TxErr("AmountNotProvided")
    ELSE IF s.accounts[tx.client].locked THEN TxErr("AccountLocked")
    ELSE IF tx.amount.v < 0 THEN TxErr("NegativeAmountProvided")
    ELSE IF tx.amount.v > s.accounts[tx.client].available
         THEN TxErrFunds("NotEnoughFunds", s.accounts[tx.client].available, tx.amount.v)
    ELSE Ok

\* The result of the first check of a Deposit that fails, in the order amount
\* present, account lock, sign of the amount.
FirstFailingDepositCheck(s, tx) ==
    IF ~tx.amount.some THEN TxErr("AmountNotProvided")
    ELSE IF tx.client \in DOMAIN s.accounts /\ s.accounts[tx.client].locked
         THEN TxErr("AccountLocked")
    ELSE IF tx.amount.v < 0 THEN TxErr("NegativeAmountProvided")
    ELSE Ok

\* C23: a Withdrawal reports the first check that fails in the order
\* UnknownAccount, AmountNotProvided, AccountLocked, NegativeAmountProvided,
\* NotEnoughFunds, and a Deposit in the order AmountNotProvided, AccountLocked,
\* NegativeAmountProvided; each returns Ok when no check fails.
C23_DepositWithdrawalCheckOrder ==
    /\ last.tpe = "Withdrawal" => result = FirstFailingWithdrawalCheck(before, last)
    /\ last.tpe = "Deposit" => result = FirstFailingDepositCheck(before, last)

C23_Witness ==
    /\ last.tpe = "Withdrawal"
    /\ last.client \in DOMAIN before.accounts
    /\ before.accounts[last.client].locked
    /\ last.amount = Some(-1)
    /\ result = TxErr("AccountLocked")

\* The latest call was a Resolve or Chargeback that passed the history,
\* lifecycle-state and client checks on an unlocked account, with a recorded
\* amount greater than the held balance.
HeldShortage ==
    /\ last.tpe \in {"Resolve", "Chargeback"}
    /\ NamedInState("Disputed")
    /\ before.transaction_history[last.tx].client = last.client
    /\ last.client \in DOMAIN before.accounts
    /\ ~before.accounts[last.client].locked
    /\ before.transaction_history[last.tx].amount.some
    /\ before.transaction_history[last.tx].amount.v > before.accounts[last.client].held

\* C24: on any ledger, reachable or not, a Resolve or Chargeback that passes the
\* history, lifecycle-state and client checks on an unlocked account while the
\* recorded amount exceeds the held balance returns IntegrityError
\* FundsNotLocked, and the accounts, the history and the lifecycle states are
\* left as they were.
C24_HeldShortageEscalates ==
    HeldShortage =>
        /\ result.tier = "IntegrityError"
        /\ result.error = "FundsNotLocked"
        /\ result.required = before.transaction_history[last.tx].amount.v
        /\ Ledger = before

C24_Witness ==
    /\ HeldShortage
    /\ last.tpe = "Chargeback"
    /\ before.accounts[last.client] = [available |-> 2, held |-> 0, locked |-> FALSE]
    /\ before.transaction_history[last.tx].amount = Some(1)
    /\ result.error = "FundsNotLocked"
    /\ transaction_state[last.tx] = "Disputed"

\* The tx ids of client c that are in lifecycle state Disputed in ledger s.
OpenDisputes(s, c) ==
    {t \in DOMAIN s.transaction_state :
        /\ s.transaction_state[t] = "Disputed"
        /\ s.transaction_history[t].client = c}

\* The sum of the recorded amounts of the tx ids in ts.
RECURSIVE AmountSum(_, _)
AmountSum(s, ts) ==
    IF ts = {} THEN 0
    ELSE LET t == CHOOSE x \in ts : TRUE
         IN  s.transaction_history[t].amount.v + AmountSum(s, ts \ {t})

\* C25: as long as no Deposit or Withdrawal has reused a tx id, every client's
\* held balance is the sum of the amounts of its transactions in state Disputed,
\* zero when it has none.
C25_HeldMatchesOpenDisputes ==
    ~reused =>
        \A c \in DOMAIN accounts :
            accounts[c].held = AmountSum(Ledger, OpenDisputes(Ledger, c))

C25_Witness ==
    /\ ~reused
    /\ \E c \in DOMAIN accounts :
          /\ accounts[c].locked
          /\ accounts[c].held = 1
          /\ OpenDisputes(Ledger, c) # {}
          /\ \E t \in DOMAIN transaction_state :
                /\ transaction_state[t] = "Chargebacked"
                /\ transaction_history[t] = Tx("Deposit", c, t, Some(1))

\* The available and held funds of client c together; none without an account.
Total(s, c) ==
    IF c \in DOMAIN s.accounts
    THEN s.accounts[c].available + s.accounts[c].held
    ELSE 0

\* C26: for every client, available + held is the sum of its Deposits that
\* returned Ok, minus the sum of its Withdrawals that returned Ok, minus the
\* amounts its Chargebacks that returned Ok removed; a Dispute or Resolve leaves
\* every client's available + held as it was.
C26_FundsConserved ==
    /\ \A c \in Clients :
          Total(Ledger, c) = applied[c].deposits - applied[c].withdrawals
                                 - applied[c].chargebacks
    /\ last.tpe \in {"Dispute", "Resolve"} =>
          \A c \in Clients : Total(Ledger, c) = Total(before, c)

C26_Witness ==
    /\ \E c \in Clients :
          /\ applied[c].deposits = 2
          /\ applied[c].withdrawals = 1
          /\ applied[c].chargebacks = 1
          /\ Total(Ledger, c) = 0
    /\ last.tpe = "Chargeback"
    /\ result = Ok

\* C27: the transaction history and the lifecycle-state map have the same tx
\* ids; every history entry is a Deposit or Withdrawal record with an amount that
\* is present and not negative, stored under its own tx id; and the client of
\* every history entry has an account.
C27_MapsConsistent ==
    /\ DOMAIN transaction_history = DOMAIN transaction_state
    /\ \A t \in DOMAIN transaction_history :
          LET tx == transaction_history[t]
          IN  /\ tx.tpe \in DepositKinds
              /\ tx.tx = t
              /\ tx.amount.some
              /\ tx.amount.v >= 0
              /\ tx.client \in DOMAIN accounts
              /\ transaction_state[t] = "Withdrawn" => tx.tpe = "Withdrawal"
              /\ transaction_state[t] = "Deposited" => tx.tpe = "Deposit"

C27_Witness ==
    /\ DOMAIN transaction_history = TxIds
    /\ \E t, u \in TxIds :
          /\ transaction_history[t].tpe = "Deposit"
          /\ transaction_history[u].tpe = "Withdrawal"
          /\ transaction_state[t] = "Disputed"
          /\ transaction_state[u] = "Withdrawn"
    /\ last.tpe = "Deposit" /\ last.amount = Some(-1) /\ result.tier # "Ok"

\* C28: a call with client field c leaves the account of every other client as
\* it was, and gives no other client an account, whether it returns Ok or an
\* error; a Dispute, Resolve or Chargeback leaves the transaction history as it
\* was and changes the lifecycle state of no tx id other than the one it names.
C28_ClientIsolation ==
    Called =>
        /\ \A c \in Clients \ {last.client} :
              IF c \in DOMAIN before.accounts
              THEN c \in DOMAIN accounts /\ accounts[c] = before.accounts[c]
              ELSE c \notin DOMAIN accounts
        /\ last.tpe \in DisputeKinds =>
              /\ transaction_history = before.transaction_history
              /\ DOMAIN transaction_state = DOMAIN before.transaction_state
              /\ \A t \in DOMAIN transaction_state \ {last.tx} :
                    transaction_state[t] = before.transaction_state[t]

C28_Witness ==
    /\ last.tpe = "Dispute"
    /\ result = Ok
    /\ DOMAIN accounts = Clients
    /\ \E t \in DOMAIN transaction_state \ {last.tx} :
          /\ transaction_state[t] = "Deposited"
          /\ transaction_history[t].client = last.client
    /\ \E c \in Clients \ {last.client} : accounts[c].available = 1

\* C29: an account is locked exactly when a Chargeback with its client has
\* returned Ok (a client without account counts as not locked), and no client
\* ever has more than one Chargeback that returned Ok.
C29_LockedIffChargedBack ==
    \A c \in Clients :
        /\ (c \in DOMAIN accounts /\ accounts[c].locked)
              <=> applied[c].chargeback_calls >= 1
        /\ applied[c].chargeback_calls <= 1

C29_Witness ==
    /\ last.tpe = "Chargeback"
    /\ NamedInState("Disputed")
    /\ before.transaction_history[last.tx].client = last.client
    /\ applied[last.client].chargeback_calls = 1
    /\ accounts[last.client].locked
    /\ accounts[last.client].held = 1
    /\ result = TxErr("AccountLocked")

\* In ledger s, a Resolve and a Chargeback by the owner of every Disputed
\* transaction return Ok when the owner's account is not locked and
\* AccountLocked when it is.
OwnerCanClose(s) ==
    \A t \in DOMAIN s.transaction_state :
        s.transaction_state[t] = "Disputed" =>
            LET owner == s.transaction_history[t].client
            IN  \A kind \in {"Resolve", "Chargeback"} :
                    apply_transaction(s, Tx(kind, owner, t, None)).res =
                        IF s.accounts[owner].locked THEN TxErr("AccountLocked") ELSE Ok

\* The tx ids that were Disputed, with their owner's account locked, when the
\* latest call was made.
FrozenDisputes ==
    {t \in DOMAIN before.transaction_state :
        /\ before.transaction_state[t] = "Disputed"
        /\ before.accounts[before.transaction_history[t].client].locked}

\* C30 as stated: in every reachable state the owner's Resolve or Chargeback of a
\* Disputed transaction returns Ok on an unlocked account and AccountLocked on a
\* locked one, and a dispute that is open on a locked account stays Disputed,
\* with the owner's funds held, whatever call comes next.
C30_OpenDisputeClosableOrFrozen ==
    /\ OwnerCanClose(Ledger)
    /\ \A t \in FrozenDisputes :
          /\ transaction_state[t] = "Disputed"
          /\ accounts[before.transaction_history[t].client] =
                 before.accounts[before.transaction_history[t].client]

\* C30: in every reachable state the owner's Resolve or Chargeback of a Disputed
\* transaction returns Ok on an unlocked account and AccountLocked on a locked
\* one; a dispute that is open on a locked account leaves the owner's account,
\* held funds included, as it is whatever call comes next, and stays Disputed
\* unless that call is a Deposit or Withdrawal of another client that returns Ok
\* under the same tx id and so replaces the record.
C30_ClosableOrFrozenUntilOverwritten ==
    /\ OwnerCanClose(Ledger)
    /\ \A t \in FrozenDisputes :
          LET owner == before.transaction_history[t].client
          IN  /\ accounts[owner] = before.accounts[owner]
              /\ \/ /\ transaction_state[t] = "Disputed"
                    /\ transaction_history[t] = before.transaction_history[t]
                 \/ /\ last.tpe \in DepositKinds
                    /\ last.tx = t
                    /\ last.client # owner
                    /\ result = Ok
                    /\ transaction_history[t] = last

C30_Witness ==
    /\ FrozenDisputes # {}
    /\ \E t \in FrozenDisputes :
          /\ last = Tx("Resolve", before.transaction_history[t].client, t, None)
          /\ result = TxErr("AccountLocked")
          /\ transaction_state[t] = "Disputed"
          /\ accounts[last.client].held = 1

====
